---- MODULE Spec2Model ----
(***************************************************************************)
(* Model of the Uniswap quote/swap scripts and HTTP services.              *)
(*                                                                         *)
(* The repository holds seven programs (several are concatenated in one    *)
(* source file):                                                           *)
(*   app1      src/app.js:1-155                 service, mapping lookup    *)
(*   app2      src/app.js:157-369               service, ETH + approve     *)
(*   approve   src/app.js:371-416               script, approve DAI        *)
(*   swapMap   src/d_swap_from_mapping.js:1-193 script, swap by mapping    *)
(*   app3      src/d_swap_from_mapping.js:195-419 service, by address      *)
(*   swapFixed src/Dockerfile:18-134            script, fixed 0.3% tier    *)
(*   genMapping src/get_pool_address.js:45-76   script, writes the mapping *)
(* and the pure function getPoolAddress of src/get_pool_address.js.        *)
(*                                                                         *)
(* A run is one process.  Every `await` of the code is a suspension point: *)
(* an action runs the synchronous code between two suspension points, and  *)
(* the reply of the remote node (success or failure, and the value) is the *)
(* action's input.  `trace` records the remote calls, their replies, the   *)
(* HTTP responses and the process exits of the current request or run.     *)
(*                                                                         *)
(* Amounts are scaled: one model wei is 10^-4 ether (the code's unit is    *)
(* 10^-18 ether), so that the numbers fit TLC's integers.                  *)
(***************************************************************************)
EXTENDS Integers, Sequences, FiniteSets, TLC

VARIABLES
  prog,      \* the program this process runs
  env,       \* process.env: [rpc, key]
  mappingFile, \* the content of the mapping file on disk
  tokenMap,  \* the parsed mapping file (read once at startup)
  pc,        \* position of the process / of the request handler
  req,       \* the HTTP request being handled
  nreq,      \* requests received so far
  tier,      \* index of the fee tier the getBestQuote loop is at
  inflight,  \* remote calls issued and not yet answered
  trace,     \* events of the current request or run
  loc,       \* locals of the handler / of main
  exitCode,  \* exit code of the process, -1 while it runs
  poolArgs,  \* arguments of the getPoolAddress call under test
  poolRet,   \* its outcome
  handlers   \* the request handlers of a service that are in flight together

runVars == <<prog, env, mappingFile, tokenMap, pc, req, nreq, tier, inflight, trace, loc, exitCode>>
poolVars == <<poolArgs, poolRet>>
vars == <<prog, env, mappingFile, tokenMap, pc, req, nreq, tier, inflight, trace, loc, exitCode,
          poolArgs, poolRet, handlers>>

(***************************************************************************)
(* Bounds.                                                                 *)
(***************************************************************************)
MaxRequests == 2   \* requests one service process receives
AddrLen == 2       \* hex digits of a token identifier (40 in the code)

(***************************************************************************)
(* Programs and their constants.                                           *)
(***************************************************************************)
Progs == {"app1", "app2", "app3", "swapMap", "swapFixed", "approve", "genMapping"}
Services == {"app1", "app2", "app3"}
IsService(p) == p \in Services

UNISWAP_V3_ROUTER_ADDRESS == "0xE592427A0AEce92De3Edee1F18E0157C05861564"
QUOTER_ADDRESS == "0xb27308f9F90D607463bb33eA1BeBb41C27CE5AB6"
WETH_ADDRESS == "0xC02aaA39b223FE8D0A0e5C4F27eAD9083C756Cc2"
DAI_ADDRESS == "0x6B175474E89094C44Da98b954EedeAC495271d0F"
USDT_ADDRESS == "0xdAC17F958D2ee523a2206206994597C13D831ec7"
BNB_ADDRESS == "0xB8c77482e45F1F44dE1745F52C74426C631bDD52"

\* Mutation: the tiers are listed from the highest fee to the lowest.
feeTiers_Descending(p) ==
  CASE p = "app1" -> <<10000, 3000, 500>>
    [] p = "app2" -> <<10000, 3000, 500>>
    [] p = "swapMap" -> <<10000, 3000, 500>>
    [] p = "app3" -> <<15000, 10000, 3000, 500>>
    [] p = "swapFixed" -> <<3000>>
    [] OTHER -> <<>>

\* feeTiers of each program; swapFixed quotes its one constant `fee`.
feeTiers(p) ==
  CASE p = "app1" -> <<500, 3000, 10000>>
    [] p = "app2" -> <<500, 3000, 10000>>
    [] p = "swapMap" -> <<500, 3000, 10000>>
    [] p = "app3" -> <<500, 3000, 10000, 15000>>
    [] p = "swapFixed" -> <<3000>>
    [] OTHER -> <<>>

(***************************************************************************)
(* JavaScript values of headers and body fields.                           *)
(***************************************************************************)
UNDEF == [t |-> "undefined", v |-> ""]
Str(s) == [t |-> "string", v |-> s]
NumSeven == [t |-> "number", v |-> "7"]

\* !x is false exactly for a truthy x: undefined and "" are falsy.
Truthy(x) == x.t # "undefined" /\ ~(x.t = "string" /\ x.v = "")

\* String.prototype.toLowerCase on the strings of the model.
toLowerCase(s) ==
  CASE s = "WETH" -> "weth"
    [] s = "ETH" -> "eth"
    [] s = "USDT" -> "usdt"
    [] s = "DAI" -> "dai"
    [] s = "BNB" -> "bnb"
    [] s = "Wrapped Ether" -> "wrapped ether"
    [] s = "Tether USD" -> "tether usd"
    [] s = "Dai Stablecoin" -> "dai stablecoin"
    [] s = DAI_ADDRESS -> "0x6b175474e89094c44da98b954eedeac495271d0f"
    [] OTHER -> s

\* The mapping file: address -> {name, symbol}, in file order.
TokenMapFull ==
  << [address |-> WETH_ADDRESS, name |-> "Wrapped Ether", symbol |-> "WETH"],
     [address |-> USDT_ADDRESS, name |-> "Tether USD", symbol |-> "USDT"],
     [address |-> DAI_ADDRESS, name |-> "Dai Stablecoin", symbol |-> "DAI"],
     [address |-> BNB_ADDRESS, name |-> "BNB", symbol |-> "BNB"] >>
TokenMapSmall == SubSeq(TokenMapFull, 1, 3)

\* Strings the node accepts as an address argument of a contract call.
ChainAddresses == {WETH_ADDRESS, USDT_ADDRESS, DAI_ADDRESS, BNB_ADDRESS}

PRIVATE_KEY_OK == "0xprivatekey"
OTHER_KEY_OK == "0xotherkey"
\* new ethers.Wallet(key, provider) throws unless key is a private key.
WalletOk(k) == k.t = "string" /\ k.v \in {PRIVATE_KEY_OK, OTHER_KEY_OK}

\* ethers.utils.parseEther: a decimal string to wei; throws otherwise.
ParseEtherOk(x) == x.t = "string" /\ x.v \in {"1", "2", "0.0005", "3.85"}
parseEther(x) ==
  CASE x.v = "1" -> 10000
    [] x.v = "2" -> 20000
    [] x.v = "0.0005" -> 5
    [] x.v = "3.85" -> 38500
    [] OTHER -> 0

\* ethers.utils.formatUnits(n, 18): wei to a decimal string.
formatUnits(n) == [whole |-> n \div 10000, frac |-> n % 10000]

(***************************************************************************)
(* findTokenAddress.                                                       *)
(***************************************************************************)
RECURSIVE LookupFrom(_, _, _)
\* the for loop over Object.entries(tokenMap): the first entry that matches
LookupFrom(m, t, i) ==
  IF i > Len(m) THEN [ok |-> FALSE, addr |-> ""]
  ELSE IF toLowerCase(m[i].name) = t \/ toLowerCase(m[i].symbol) = t
       THEN [ok |-> TRUE, addr |-> m[i].address]
       ELSE LookupFrom(m, t, i + 1)

\* ok = FALSE stands for a throw (Token not found, or toLowerCase of a
\* value that is no string).
findTokenAddress(p, m, x) ==
  IF x.t # "string" THEN [ok |-> FALSE, addr |-> ""]
  ELSE IF p = "app3"
       THEN IF toLowerCase(x.v) = "eth" THEN [ok |-> TRUE, addr |-> WETH_ADDRESS]
            ELSE [ok |-> TRUE, addr |-> x.v]
  ELSE IF p = "app2" /\ toLowerCase(x.v) = "eth"
       THEN [ok |-> TRUE, addr |-> WETH_ADDRESS]
  ELSE LookupFrom(m, toLowerCase(x.v), 1)

(***************************************************************************)
(* calculateSlippage, in per mille (0.005 is 5).                           *)
(***************************************************************************)
Min(a, b) == IF a < b THEN a ELSE b

calculateSlippage(p, tokenIn, tokenOut) ==
  IF p = "app3"
  THEN LET inLower == toLowerCase(tokenIn)
           outLower == toLowerCase(tokenOut)
       IN IF inLower = "eth" /\ outLower = "usdt" THEN 10
          ELSE IF inLower = "eth" \/ outLower = "eth" THEN Min(10 * 2, 100)
          ELSE 100
  ELSE IF tokenIn = "weth" /\ tokenOut = "usdt" THEN 5
       ELSE IF tokenIn = "weth" \/ tokenOut = "weth" THEN Min(5 * 2, 30)
       ELSE 30

\* MAX_SLIPPAGE of the program's calculateSlippage, in per mille
MAX_SLIPPAGE(p) == IF p = "app3" THEN 100 ELSE 30

\* The slippage each swap flow uses, in per mille.
dynamicSlippage(p, r) ==
  CASE p = "app1" -> 20
    [] p = "app2" -> calculateSlippage(p, toLowerCase(r.tokenIn.v), toLowerCase(r.tokenOut.v))
    [] p = "app3" -> calculateSlippage(p, r.tokenIn.v, r.tokenOut.v)
    [] p = "swapMap" -> calculateSlippage(p, r.tokenIn.v, r.tokenOut.v)
    [] OTHER -> 10

\* amountOut.mul(100 - slippage * 100): BigNumber.mul throws on a number
\* that is no integer (100 - 0.5 = 99.5).
MultiplierOk(s) == s % 10 = 0
amountOutMinimum(amountOut, s) == (amountOut * (100 - s \div 10)) \div 100

(***************************************************************************)
(* Remote calls, events and frames.                                        *)
(***************************************************************************)
\* `from` is the key of the wallet a call goes through, "" for a call made
\* through the provider alone.
MkCall(op, target, tokenIn, tokenOut, fee, amountIn, minOut, value) ==
  [op |-> op, target |-> target, tokenIn |-> tokenIn, tokenOut |-> tokenOut,
   fee |-> fee, amountIn |-> amountIn, minOut |-> minOut, value |-> value,
   from |-> ""]

\* A call on a contract connected to the wallet of the locals l
Signed(c, l) == [c EXCEPT !.from = l.wallet]
NoCall == MkCall("none", "", "", "", 0, 0, 0, 0)

\* The JSON body of a response; for a script, what it prints as it exits.
NoBody == [kind |-> "none", error |-> "", feeTier |-> 0, amountOut |-> formatUnits(0)]
ErrorBody(msg) ==
  [kind |-> "error", error |-> msg, feeTier |-> 0, amountOut |-> formatUnits(0)]
HashBody ==
  [kind |-> "transactionHash", error |-> "", feeTier |-> 0, amountOut |-> formatUnits(0)]
QuoteBody(fee, amountOut) ==
  [kind |-> "quote", error |-> "", feeTier |-> fee, amountOut |-> formatUnits(amountOut)]

\* Error messages
MsgNoKey == "Private key required in Authorization header"
MsgMissing == "Missing required parameters in request body"
MsgBalance == "Insufficient token balance."
MsgToken == "Token not found"
MsgLibrary == "error thrown by a library call"
MsgRemote == "error of the remote call"
MsgConfig == "Please set RPC_URL and PRIVATE_KEY in .env"
\* The message of the error getBestQuote throws after its loop
NoLiquidityMessage(p) ==
  CASE p = "app3" -> "No valid liquidity pool found for the specified tokens."
    [] p = "swapMap" -> "No valid pools available for this token pair."
    [] OTHER -> "No valid liquidity pool found."

CallEv(c) == [ev |-> "call", call |-> c, ok |-> TRUE, val |-> 0, body |-> NoBody]
RetEv(c, ok, val) == [ev |-> "ret", call |-> c, ok |-> ok, val |-> val, body |-> NoBody]
RespEv(status, body) ==
  [ev |-> "resp", call |-> NoCall, ok |-> TRUE, val |-> status, body |-> body]
ExitEv(code, body) ==
  [ev |-> "exit", call |-> NoCall, ok |-> TRUE, val |-> code, body |-> body]

InitLoc ==
  [wallet |-> "", tokenInAddress |-> "", tokenOutAddress |-> "", amountInWei |-> 0,
   valueToSend |-> 0, fee |-> 0, amountOut |-> 0, amountOutMinimum |-> 0]

\* The mutable part of a run, as the value the steps below transform.
Frame ==
  [trace |-> trace, inflight |-> inflight, pc |-> pc, loc |-> loc,
   tier |-> tier, exitCode |-> exitCode]

Commit(f) ==
  /\ trace' = f.trace
  /\ inflight' = f.inflight
  /\ pc' = f.pc
  /\ loc' = f.loc
  /\ tier' = f.tier
  /\ exitCode' = f.exitCode

\* `await contract.method(...)`: the call goes out and the code suspends.
Issue(f, c, nextpc) ==
  [f EXCEPT !.trace = Append(@, CallEv(c)), !.inflight = @ \cup {c}, !.pc = nextpc]

\* The reply of the node resumes the code.
Return(f, c, ok, val) ==
  [f EXCEPT !.trace = Append(@, RetEv(c, ok, val)), !.inflight = @ \ {c}]

\* res.status(status).json(body)
Respond(f, status, body) ==
  [f EXCEPT !.trace = Append(@, RespEv(status, body)), !.pc = "done"]

\* process.exit(code), or the end of the script (code 0)
Exit(f, code, body) ==
  [f EXCEPT !.trace = Append(@, ExitEv(code, body)), !.pc = "exited", !.exitCode = code]

\* The status the catch block of a handler answers with.
CatchStatus == 500

\* Mutation: the catch block of a handler answers with a client error.
Throw_ClientError(p, f, msg) ==
  IF IsService(p) THEN Respond(f, 400, ErrorBody(msg))
  ELSE Exit(f, 1, ErrorBody(msg))

\* A throw inside the try of a handler, or inside main of a script.
Throw(p, f, msg) ==
  IF IsService(p) THEN Respond(f, CatchStatus, ErrorBody(msg))
  ELSE Exit(f, 1, ErrorBody(msg))

(***************************************************************************)
(* getBestQuote.                                                           *)
(***************************************************************************)
QuoteCall(p, l, i) ==
  MkCall("quote", QUOTER_ADDRESS, l.tokenInAddress, l.tokenOutAddress,
         feeTiers(p)[i], l.amountInWei, 0, 0)

\* Mutation: the calls of tier i and of every later tier go out together.
TiersIssued_FanOut(p, i) ==
  [j \in 1..(Len(feeTiers(p)) - i + 1) |-> i + j - 1]

\* The tiers whose quoter call the loop issues when it reaches tier i: the
\* loop awaits each call, so exactly the one of tier i.
TiersIssued(p, i) == <<i>>

RECURSIVE IssueQuotes(_, _, _)
IssueQuotes(p, f, is) ==
  IF is = <<>> THEN f
  ELSE IssueQuotes(p, Issue(f, QuoteCall(p, f.loc, Head(is)), "quote"), Tail(is))

\* Entering the for loop of getBestQuote.
StartQuote(p, f) == IssueQuotes(p, [f EXCEPT !.tier = 1], TiersIssued(p, 1))

\* Mutation: the loop goes on after a success and keeps the last one.
QuoteLoopNext_KeepScanning(ok, i, n) ==
  IF i < n THEN "next" ELSE IF ok THEN "return" ELSE "throw"

\* Mutation: the first failure leaves the loop.
QuoteLoopNext_AbortOnFailure(ok, i, n) == IF ok THEN "return" ELSE "throw"

\* What the loop body does with the reply for tier i of n: return the
\* quote, go on with the next tier, or fall out of the loop and throw.
QuoteLoopNext(ok, i, n) ==
  IF ok THEN "return" ELSE IF i < n THEN "next" ELSE "throw"

\* The programs that quote through getBestQuote; swapFixed calls the quoter
\* once, outside any loop or try, and the error of that call leaves main.
HasGetBestQuote(p) == p \in {"app1", "app2", "app3", "swapMap"}
QuoteLoopError(p) == IF HasGetBestQuote(p) THEN NoLiquidityMessage(p) ELSE MsgRemote

\* The tier the loop goes on with after tier i
NextTier(i) == i + 1

(***************************************************************************)
(* The swap flows.                                                         *)
(***************************************************************************)
\* Mutation: every swap sends amountIn as its value.
SwapValue_AlwaysAmount(p, l) == l.amountInWei

\* The `value` override of router.exactInputSingle
SwapValue(p, l) ==
  CASE p \in {"app2", "app3"} -> l.valueToSend
    [] p = "swapFixed" -> l.amountInWei
    [] OTHER -> 0

\* Mutation: the swap goes to the first tier of the list, whatever tier the
\* quote came from.
SwapCall_FirstTier(op, p, l) ==
  Signed(MkCall(op, UNISWAP_V3_ROUTER_ADDRESS, l.tokenInAddress, l.tokenOutAddress,
                feeTiers(p)[1], l.amountInWei, l.amountOutMinimum, SwapValue(p, l)), l)

\* params of router.exactInputSingle and its `value` override
SwapCall(op, p, l) ==
  Signed(MkCall(op, UNISWAP_V3_ROUTER_ADDRESS, l.tokenInAddress, l.tokenOutAddress,
                l.fee, l.amountInWei, l.amountOutMinimum, SwapValue(p, l)), l)

\* A call on the tokenIn contract, connected to the wallet
TokenCall(op, l, amount) ==
  Signed(MkCall(op, l.tokenInAddress, "", "", 0, amount, 0, 0), l)

\* ethers.constants.MaxUint256 stands as -1
ApproveAmount(p, l) == IF p = "approve" THEN l.amountInWei ELSE -1

\* The code after getBestQuote has returned {fee, amountOut} (in f.loc).
AfterQuote(p, r, f) ==
  IF r.route = "quote"
  THEN Respond(f, 200, QuoteBody(f.loc.fee, f.loc.amountOut))
  ELSE LET s == dynamicSlippage(p, r)
           g == [f EXCEPT !.loc.amountOutMinimum = amountOutMinimum(f.loc.amountOut, s)]
       IN IF ~MultiplierOk(s) THEN Throw(p, f, MsgLibrary)
          ELSE IF p = "app1" THEN Issue(g, SwapCall("estimateGas", p, g.loc), "estimateGas")
          ELSE Issue(g, SwapCall("swap", p, g.loc), "swap")

\* Mutation: the flow ends without awaiting swapTx.wait().
AfterSwapSent_NoWait(p, f) ==
  IF IsService(p) THEN Respond(f, 200, HashBody) ELSE Exit(f, 0, NoBody)

\* The code after the swap transaction was submitted: await swapTx.wait()
AfterSwapSent(p, f) == Issue(f, SwapCall("swapWait", p, f.loc), "swapWait")

\* Mutation: the flow goes on without awaiting approveTx.wait().
AfterApproveSent_NoWait(p, r, f) ==
  IF p = "approve" THEN Exit(f, 0, NoBody) ELSE StartQuote(p, f)

\* The code after the approve transaction was submitted: await approveTx.wait()
AfterApproveSent(p, r, f) ==
  Issue(f, TokenCall("approveWait", f.loc, ApproveAmount(p, f.loc)), "approveWait")

\* Mutation: a failed approve is submitted again.
AfterApproveFailed_Retry(p, r, f) ==
  Issue(f, TokenCall("approve", f.loc, ApproveAmount(p, f.loc)), "approve")

\* The code after a failed approve submission or confirmation: the error
\* leaves the try block (service) or main (script).
AfterApproveFailed(p, r, f) == Throw(p, f, MsgRemote)

\* Locals after the three conversions at the top of the try block (the
\* wallet is set by the caller).
ResolvedLoc(p, m, r) ==
  [InitLoc EXCEPT !.tokenInAddress = findTokenAddress(p, m, r.tokenIn).addr,
                  !.tokenOutAddress = findTokenAddress(p, m, r.tokenOut).addr,
                  !.amountInWei = parseEther(r.amountIn)]

ResolveOk(p, m, r) ==
  /\ findTokenAddress(p, m, r.tokenIn).ok
  /\ findTokenAddress(p, m, r.tokenOut).ok
  /\ ParseEtherOk(r.amountIn)

\* The message of the first of the conversions that throws
ResolveError(p, m, r) ==
  IF ~findTokenAddress(p, m, r.tokenIn).ok \/ ~findTokenAddress(p, m, r.tokenOut).ok
  THEN MsgToken ELSE MsgLibrary

BodyComplete(r) == Truthy(r.amountIn) /\ Truthy(r.tokenIn) /\ Truthy(r.tokenOut)

\* Mutation: the body is checked before the Authorization header.
SwapPrefix_BodyFirst(p, m, r, f) ==
  IF ~BodyComplete(r) THEN Respond(f, 400, ErrorBody(MsgMissing))
  ELSE IF ~Truthy(r.auth) THEN Respond(f, 401, ErrorBody(MsgNoKey))
  ELSE IF ~WalletOk(r.auth) THEN Throw(p, f, MsgLibrary)
  ELSE IF ~ResolveOk(p, m, r) THEN Throw(p, f, ResolveError(p, m, r))
  ELSE LET g == [f EXCEPT !.loc = [ResolvedLoc(p, m, r) EXCEPT !.wallet = r.auth.v]]
       IN IF p = "app1" THEN StartQuote(p, g)
          ELSE IF toLowerCase(r.tokenIn.v) = "eth"
               THEN StartQuote(p, [g EXCEPT !.loc.valueToSend = g.loc.amountInWei])
          ELSE Issue(g, TokenCall("balanceOf", g.loc, 0), "balanceOf")

\* POST /swap up to its first suspension point.
SwapPrefix(p, m, r, f) ==
  IF ~Truthy(r.auth) THEN Respond(f, 401, ErrorBody(MsgNoKey))
  ELSE IF ~BodyComplete(r) THEN Respond(f, 400, ErrorBody(MsgMissing))
  ELSE IF ~WalletOk(r.auth) THEN Throw(p, f, MsgLibrary)
  ELSE IF ~ResolveOk(p, m, r) THEN Throw(p, f, ResolveError(p, m, r))
  ELSE LET g == [f EXCEPT !.loc = [ResolvedLoc(p, m, r) EXCEPT !.wallet = r.auth.v]]
       IN IF p = "app1" THEN StartQuote(p, g)
          ELSE IF toLowerCase(r.tokenIn.v) = "eth"
               THEN StartQuote(p, [g EXCEPT !.loc.valueToSend = g.loc.amountInWei])
          ELSE Issue(g, TokenCall("balanceOf", g.loc, 0), "balanceOf")

\* POST /quote up to its first suspension point.
QuotePrefix(p, m, r, f) ==
  IF ~BodyComplete(r) THEN Respond(f, 400, ErrorBody(MsgMissing))
  ELSE IF ~ResolveOk(p, m, r) THEN Throw(p, f, ResolveError(p, m, r))
  ELSE StartQuote(p, [f EXCEPT !.loc = ResolvedLoc(p, m, r)])

(***************************************************************************)
(* Inputs: the environment, the requests and the replies of the node.      *)
(***************************************************************************)
\* RPC_URL and PRIVATE_KEY of process.env.  The services never read
\* PRIVATE_KEY (the key comes with each request), so it is left unset there;
\* the generator of the mapping file reads neither.
Envs(p) ==
  IF IsService(p) \/ p = "genMapping" THEN [rpc : BOOLEAN, key : {UNDEF}]
  ELSE [rpc : BOOLEAN, key : {UNDEF, Str("not-a-key"), Str(PRIVATE_KEY_OK)}]

\* Envs is defined below AuthVals' values; both are JavaScript values.
AuthVals == {UNDEF, Str("not-a-key"), Str(PRIVATE_KEY_OK)}
AmountVals == {UNDEF, Str(""), Str("abc"), Str("1"), NumSeven}
TokenInVals ==
  {UNDEF, NumSeven, Str("weth"), Str("WETH"), Str("eth"), Str("ETH"), Str("nope"),
   Str(DAI_ADDRESS)}
TokenOutVals == {UNDEF, Str("usdt"), Str("dai"), Str(DAI_ADDRESS)}

\* POST /quote does not read the Authorization header.
Requests ==
  [route : {"swap"}, auth : AuthVals, amountIn : AmountVals,
   tokenIn : TokenInVals, tokenOut : TokenOutVals]
  \cup
  [route : {"quote"}, auth : {UNDEF}, amountIn : AmountVals,
   tokenIn : TokenInVals, tokenOut : TokenOutVals]

NoRequest ==
  [route |-> "none", auth |-> UNDEF, amountIn |-> UNDEF, tokenIn |-> UNDEF,
   tokenOut |-> UNDEF]

\* parseUserQuery("swap 0.0005 WETH with BNB"): lower-cased and split
UserQuery ==
  [route |-> "main", auth |-> UNDEF, amountIn |-> Str("0.0005"),
   tokenIn |-> Str("weth"), tokenOut |-> Str("bnb")]

\* The constants of the script that swaps ETH for DAI at the 0.3% tier
FixedQuery ==
  [route |-> "main", auth |-> UNDEF, amountIn |-> Str("0.0005"),
   tokenIn |-> Str("eth"), tokenOut |-> Str("dai")]

\* The constants of the script that approves 3.85 DAI
ApproveQuery ==
  [route |-> "main", auth |-> UNDEF, amountIn |-> Str("3.85"),
   tokenIn |-> Str("dai"), tokenOut |-> UNDEF]

RemoteAmounts == {0, 5, 10000}   \* balances and allowances the node reports
QuoteOuts == {0, 99, 250}        \* amounts the quoter reports

\* ethers rejects a call whose address argument does not resolve, so such a
\* call never succeeds; any other call succeeds or fails as the node decides.
CanSucceed(c) ==
  /\ c.target \in ChainAddresses \cup {QUOTER_ADDRESS, UNISWAP_V3_ROUTER_ADDRESS}
  /\ c.op \in {"quote", "estimateGas", "swap", "swapWait"} =>
       c.tokenIn \in ChainAddresses /\ c.tokenOut \in ChainAddresses

(***************************************************************************)
(* Startup.                                                                *)
(***************************************************************************)
\* The check `if (!RPC_URL || !PRIVATE_KEY) process.exit(1)` of the scripts;
\* the services read RPC_URL and check nothing, and the generator of the
\* mapping file reads no configuration.
ConfigChecked(p) == p \in {"swapMap", "swapFixed", "approve"}
ConfigMissing(e) == ~e.rpc \/ ~Truthy(e.key)

\* main() of each script up to its first suspension point.
MainPrefix(p, m, f) ==
  CASE p = "approve" ->
         LET g == [f EXCEPT !.loc.tokenInAddress = DAI_ADDRESS,
                            !.loc.amountInWei = parseEther(ApproveQuery.amountIn)]
         IN Issue(g, TokenCall("approve", g.loc, ApproveAmount(p, g.loc)), "approve")
    [] p = "swapFixed" ->
         StartQuote(p, [f EXCEPT !.loc.tokenInAddress = WETH_ADDRESS,
                                 !.loc.tokenOutAddress = DAI_ADDRESS,
                                 !.loc.amountInWei = parseEther(FixedQuery.amountIn)])
    [] OTHER ->
         IF ~ResolveOk(p, m, UserQuery) THEN Throw(p, f, ResolveError(p, m, UserQuery))
         ELSE LET g == [f EXCEPT !.loc = [ResolvedLoc(p, m, UserQuery)
                                            EXCEPT !.wallet = f.loc.wallet]]
              IN Issue(g, TokenCall("balanceOf", g.loc, 0), "balanceOf")

ScriptQuery(p) ==
  CASE p = "approve" -> ApproveQuery
    [] p = "swapFixed" -> FixedQuery
    [] OTHER -> UserQuery

\* The programs that parse the mapping file when they are loaded
ReadsMapping(p) == p \in {"app1", "app2", "swapMap"}

\* Mutation: the mapping file is opened for writing, which empties it.
FileAfterLoad_Truncates(p, file) == IF ReadsMapping(p) THEN <<>> ELSE file

\* The mapping file after a service or swap script was loaded:
\* fs.readFileSync leaves it as it is, and these programs make no other
\* call on fs.
FileAfterLoad(p, file) == file

\* Module-level code of a program, and for a script main() up to its first
\* suspension point.
Boot ==
  /\ pc = "boot"
  /\ prog # "genMapping"
  /\ UNCHANGED <<prog, env, nreq, poolArgs, poolRet, handlers>>
  /\ mappingFile' = FileAfterLoad(prog, mappingFile)
  /\ tokenMap' = IF ReadsMapping(prog) THEN mappingFile ELSE tokenMap
  /\ IF IsService(prog)
     THEN /\ pc' = "listening"
          /\ UNCHANGED <<req, tier, inflight, trace, loc, exitCode>>
     ELSE /\ req' = ScriptQuery(prog)
          /\ IF ConfigChecked(prog) /\ ConfigMissing(env)
             THEN Commit(Exit(Frame, 1, ErrorBody(MsgConfig)))
             ELSE IF ~WalletOk(env.key) THEN Commit(Exit(Frame, 1, ErrorBody(MsgLibrary)))
             ELSE Commit(MainPrefix(prog, tokenMap',
                                    [Frame EXCEPT !.loc.wallet = env.key.v]))

(***************************************************************************)
(* getTokenMapping: the script that writes the mapping file.               *)
(*                                                                         *)
(* A line of tokens.txt is the sequence of its comma-separated columns,    *)
(* trimmed; the empty line is the empty sequence.                          *)
(***************************************************************************)
HeaderLine == <<"ContractAddress", "TokenName", "Symbol">>
BlankLine == <<>>
ShortLine == <<DAI_ADDRESS, "Dai Stablecoin">>
WethLine == <<WETH_ADDRESS, "Wrapped Ether", "WETH">>
UsdtLine == <<USDT_ADDRESS, "Tether USD", "USDT", "6">>
WethAgainLine == <<WETH_ADDRESS, "WETH9", "WETH">>
TokenLines == {HeaderLine, BlankLine, ShortLine, WethLine, UsdtLine, WethAgainLine}

\* if (!line || line.startsWith('ContractAddress')) continue;
\* if (parts.length < 3) continue;
LineSkipped(line) ==
  \/ line = <<>>
  \/ line[1] = "ContractAddress"
  \/ Len(line) < 3

\* mapping[contractAddress] = {name, symbol}: a key already present keeps
\* its place and takes the new value, a new key goes last.
PutEntry(m, e) ==
  IF \E i \in DOMAIN m : m[i].address = e.address
  THEN [i \in DOMAIN m |-> IF m[i].address = e.address THEN e ELSE m[i]]
  ELSE Append(m, e)

RECURSIVE MappingOf(_, _)
\* the for loop over the lines
MappingOf(lines, m) ==
  IF lines = <<>> THEN m
  ELSE LET line == Head(lines)
       IN IF LineSkipped(line) THEN MappingOf(Tail(lines), m)
          ELSE MappingOf(Tail(lines),
                         PutEntry(m, [address |-> line[1], name |-> line[2],
                                      symbol |-> line[3]]))

\* The content getTokenMapping writes to outputFilePath
getTokenMapping(lines) == MappingOf(lines, <<>>)

\* tokens.txt: absent, or up to FileLines lines
FileLines == 3
TokensFiles ==
  {[exists |-> FALSE, lines |-> <<>>]} \cup
  {[exists |-> TRUE, lines |-> ls] :
     ls \in UNION {[1..n -> TokenLines] : n \in 0..FileLines}}

\* getTokenMapping('./tokens.txt', './mapping.json') at the end of the
\* module: fs.readFileSync throws when tokens.txt is absent, and otherwise
\* fs.writeFileSync replaces the mapping file.
GenerateMapping(file) ==
  /\ prog = "genMapping"
  /\ pc = "boot"
  /\ UNCHANGED <<prog, env, tokenMap, req, nreq, poolArgs, poolRet, handlers>>
  /\ IF file.exists
     THEN /\ mappingFile' = getTokenMapping(file.lines)
          /\ Commit(Exit(Frame, 0, NoBody))
     ELSE /\ mappingFile' = mappingFile
          /\ Commit(Exit(Frame, 1, ErrorBody(MsgLibrary)))

(***************************************************************************)
(* The services: a request arrives.                                        *)
(***************************************************************************)
FreshFrame ==
  [trace |-> <<>>, inflight |-> {}, pc |-> "handler", loc |-> InitLoc,
   tier |-> 0, exitCode |-> exitCode]

Receive(r) ==
  /\ IsService(prog)
  /\ pc = "listening"
  /\ nreq < MaxRequests
  /\ nreq' = nreq + 1
  /\ req' = r
  /\ UNCHANGED <<prog, env, mappingFile, tokenMap, poolArgs, poolRet, handlers>>
  /\ IF r.route = "swap" THEN Commit(SwapPrefix(prog, tokenMap, r, FreshFrame))
     ELSE Commit(QuotePrefix(prog, tokenMap, r, FreshFrame))

\* The handler has answered and returned: the server waits for the next
\* request, and nothing of the handler's locals is kept.
HandlerReturns ==
  /\ IsService(prog)
  /\ pc = "done"
  /\ nreq < MaxRequests
  /\ pc' = "listening"
  /\ req' = NoRequest
  /\ trace' = <<>>
  /\ loc' = InitLoc
  /\ tier' = 0
  /\ UNCHANGED <<prog, env, mappingFile, tokenMap, nreq, inflight, exitCode, poolArgs,
                 poolRet, handlers>>

(***************************************************************************)
(* The replies of the node: the code resumes after an await.               *)
(***************************************************************************)
Awaiting(c, op, at) == pc = at /\ c \in inflight /\ c.op = op

Same ==
  UNCHANGED <<prog, env, mappingFile, tokenMap, req, nreq, poolArgs, poolRet, handlers>>

\* The code between two suspension points, as a function of the handler's
\* (or main's) own frame f and of the reply (ok, value) to its call c.

\* await tokenContract.balanceOf(wallet.address)
OnBalance(p, r, f, c, ok, balance) ==
  LET g == Return(f, c, ok, balance)
  IN IF ~ok THEN Throw(p, g, MsgRemote)
     ELSE IF balance < g.loc.amountInWei
          THEN IF IsService(p) THEN Respond(g, 400, ErrorBody(MsgBalance))
               ELSE Throw(p, g, MsgBalance)
     ELSE Issue(g, TokenCall("allowance", g.loc, 0), "allowance")

\* await tokenContract.allowance(wallet.address, router)
OnAllowance(p, r, f, c, ok, allowance) ==
  LET g == Return(f, c, ok, allowance)
  IN IF ~ok THEN Throw(p, g, MsgRemote)
     ELSE IF allowance < g.loc.amountInWei
          THEN Issue(g, TokenCall("approve", g.loc, ApproveAmount(p, g.loc)), "approve")
     ELSE StartQuote(p, g)

\* await tokenContract.approve(router, amount)
OnApprove(p, r, f, c, ok) ==
  LET g == Return(f, c, ok, 0)
  IN IF ~ok THEN AfterApproveFailed(p, r, g) ELSE AfterApproveSent(p, r, g)

\* await approveTx.wait()
OnApproveWait(p, r, f, c, ok) ==
  LET g == Return(f, c, ok, 0)
  IN IF ~ok THEN AfterApproveFailed(p, r, g)
     ELSE IF p = "approve" THEN Exit(g, 0, NoBody)
     ELSE StartQuote(p, g)

\* await quoter.callStatic.quoteExactInputSingle(...) inside the loop
OnQuote(p, r, f, c, ok, out) ==
  LET g == Return(f, c, ok, IF ok THEN out ELSE 0)
      step == QuoteLoopNext(ok, f.tier, Len(feeTiers(p)))
  IN CASE step = "return" ->
            AfterQuote(p, r, [g EXCEPT !.loc.fee = c.fee, !.loc.amountOut = out])
       [] step = "next" ->
            IssueQuotes(p, [g EXCEPT !.tier = NextTier(f.tier)],
                        TiersIssued(p, NextTier(f.tier)))
       [] OTHER -> Throw(p, g, QuoteLoopError(p))

\* await router.estimateGas.exactInputSingle(params)
OnEstimate(p, r, f, c, ok) ==
  LET g == Return(f, c, ok, 0)
  IN IF ~ok THEN Throw(p, g, MsgRemote)
     ELSE Issue(g, SwapCall("swap", p, g.loc), "swap")

\* await router.exactInputSingle(params, overrides)
OnSwap(p, r, f, c, ok) ==
  LET g == Return(f, c, ok, 0)
  IN IF ~ok THEN Throw(p, g, MsgRemote) ELSE AfterSwapSent(p, g)

\* await swapTx.wait()
OnSwapWait(p, r, f, c, ok) ==
  LET g == Return(f, c, ok, 0)
  IN IF ~ok THEN Throw(p, g, MsgRemote)
     ELSE IF IsService(p) THEN Respond(g, 200, HashBody)
     ELSE Exit(g, 0, NoBody)

ReplyBalance(c, ok, balance) ==
  /\ Awaiting(c, "balanceOf", "balanceOf") /\ (ok => CanSucceed(c)) /\ Same
  /\ Commit(OnBalance(prog, req, Frame, c, ok, balance))

ReplyAllowance(c, ok, allowance) ==
  /\ Awaiting(c, "allowance", "allowance") /\ (ok => CanSucceed(c)) /\ Same
  /\ Commit(OnAllowance(prog, req, Frame, c, ok, allowance))

ReplyApprove(c, ok) ==
  /\ Awaiting(c, "approve", "approve") /\ (ok => CanSucceed(c)) /\ Same
  /\ Commit(OnApprove(prog, req, Frame, c, ok))

ReplyApproveWait(c, ok) ==
  /\ Awaiting(c, "approveWait", "approveWait") /\ (ok => CanSucceed(c)) /\ Same
  /\ Commit(OnApproveWait(prog, req, Frame, c, ok))

ReplyQuote(c, ok, out) ==
  /\ Awaiting(c, "quote", "quote") /\ (ok => CanSucceed(c)) /\ Same
  /\ c = QuoteCall(prog, loc, tier)
  /\ Commit(OnQuote(prog, req, Frame, c, ok, out))

ReplyEstimate(c, ok) ==
  /\ Awaiting(c, "estimateGas", "estimateGas") /\ (ok => CanSucceed(c)) /\ Same
  /\ Commit(OnEstimate(prog, req, Frame, c, ok))

ReplySwap(c, ok) ==
  /\ Awaiting(c, "swap", "swap") /\ (ok => CanSucceed(c)) /\ Same
  /\ Commit(OnSwap(prog, req, Frame, c, ok))

ReplySwapWait(c, ok) ==
  /\ Awaiting(c, "swapWait", "swapWait") /\ (ok => CanSucceed(c)) /\ Same
  /\ Commit(OnSwapWait(prog, req, Frame, c, ok))

(***************************************************************************)
(* The specification of a process.                                         *)
(***************************************************************************)
NoPool == [tokenA |-> <<>>, tokenB |-> <<>>, fee |-> 0]
NoRet == [state |-> "none", address |-> [low20 |-> [keccak |-> <<>>]]]

Init ==
  /\ prog \in Progs
  /\ env \in Envs(prog)
  /\ mappingFile \in {TokenMapFull, TokenMapSmall}
  /\ tokenMap = <<>>
  /\ pc = "boot"
  /\ req = NoRequest
  /\ nreq = 0
  /\ tier = 0
  /\ inflight = {}
  /\ trace = <<>>
  /\ loc = InitLoc
  /\ exitCode = -1
  /\ poolArgs = NoPool
  /\ poolRet = NoRet
  /\ handlers = <<>>

Next ==
  \/ Boot
  \/ \E file \in TokensFiles : GenerateMapping(file)
  \/ \E r \in Requests : Receive(r)
  \/ HandlerReturns
  \/ \E c \in inflight, ok \in BOOLEAN, v \in RemoteAmounts : ReplyBalance(c, ok, v)
  \/ \E c \in inflight, ok \in BOOLEAN, v \in RemoteAmounts : ReplyAllowance(c, ok, v)
  \/ \E c \in inflight, ok \in BOOLEAN : ReplyApprove(c, ok)
  \/ \E c \in inflight, ok \in BOOLEAN : ReplyApproveWait(c, ok)
  \/ \E c \in inflight, ok \in BOOLEAN, v \in QuoteOuts : ReplyQuote(c, ok, v)
  \/ \E c \in inflight, ok \in BOOLEAN : ReplyEstimate(c, ok)
  \/ \E c \in inflight, ok \in BOOLEAN : ReplySwap(c, ok)
  \/ \E c \in inflight, ok \in BOOLEAN : ReplySwapWait(c, ok)

Spec == Init /\ [][Next]_vars

(***************************************************************************)
(* getPoolAddress.                                                         *)
(*                                                                         *)
(* A token identifier is the string of hex digits after "0x", as a         *)
(* sequence of characters; AddrLen digits stand for the code's 40.         *)
(* keccak256 is a symbolic, collision-free hash: the record of what was    *)
(* hashed.                                                                 *)
(***************************************************************************)
FACTORY_ADDRESS == "0x1F98431c8aD98523631AE4a59f267346ea31F984"
POOL_INIT_CODE_HASH == "0xe34f4def8b9951b4b0f4aaf0a3cbe9dc9f7a76bb2fa938612efb8e4e0d4b1d3e"

Chars == {"0", "a", "A", "b", "B", "g"}
HexChars == {"0", "a", "A", "b", "B"}
UpperChars == {"A", "B"}
LowerChars == {"a", "b"}

lowerChar(c) == CASE c = "A" -> "a" [] c = "B" -> "b" [] OTHER -> c
upperChar(c) == CASE c = "a" -> "A" [] c = "b" -> "B" [] OTHER -> c

\* address.toLowerCase()
lowerCase(a) == [i \in DOMAIN a |-> lowerChar(a[i])]

\* The value of a lower-case hex digit, which is also its order as a
\* character ("0" < "a" < "b").
digit(c) == CASE c = "0" -> 0 [] c = "a" -> 10 [] c = "b" -> 11 [] OTHER -> 16

RECURSIVE digitSum(_)
digitSum(a) == IF a = <<>> THEN 0 ELSE digit(Head(a)) + digitSum(Tail(a))

\* Whether nibble i of keccak256(lower-case address) is >= 8: a fixed
\* function of the lower-case digits and the position.
hashNibbleHigh(a, i) == (digitSum(a) + i) % 2 = 1

\* getChecksumAddress: upper-case the letters the hash selects
getChecksumAddress(a) ==
  LET l == lowerCase(a)
  IN [i \in DOMAIN a |-> IF hashNibbleHigh(l, i) THEN upperChar(l[i]) ELSE l[i]]

\* /([A-F].*[a-f])|([a-f].*[A-F])/
MixedCase(a) ==
  /\ \E i \in DOMAIN a : a[i] \in UpperChars
  /\ \E i \in DOMAIN a : a[i] \in LowerChars

\* /^(0x)?[0-9a-fA-F]{40}$/
MatchesHex(a) == Len(a) = AddrLen /\ \A i \in DOMAIN a : a[i] \in HexChars

\* getAddress(address) of @ethersproject/address: the checksummed form, or a
\* throw (ok = FALSE) for a string that is no address or has a bad checksum.
getAddress(a) ==
  IF ~MatchesHex(a) THEN [ok |-> FALSE, address |-> <<>>]
  ELSE IF MixedCase(a) /\ getChecksumAddress(a) # a THEN [ok |-> FALSE, address |-> <<>>]
  ELSE [ok |-> TRUE, address |-> getChecksumAddress(a)]

RECURSIVE stringLess(_, _)
\* a < b on JavaScript strings of lower-case hex digits
stringLess(a, b) ==
  IF b = <<>> THEN FALSE
  ELSE IF a = <<>> THEN TRUE
  ELSE IF digit(Head(a)) # digit(Head(b)) THEN digit(Head(a)) < digit(Head(b))
  ELSE stringLess(Tail(a), Tail(b))

\* Mutation: the tokens are hashed in argument order.
sortTokens_Unsorted(addressA, addressB) == <<addressA, addressB>>

\* [token0, token1] = addressA.toLowerCase() < addressB.toLowerCase() ? ...
sortTokens(addressA, addressB) ==
  IF stringLess(lowerCase(addressA), lowerCase(addressB))
  THEN <<addressA, addressB>>
  ELSE <<addressB, addressA>>

\* solidity keccak256(types, values): an address is packed as its 20 bytes
\* (the letter case of the string is not part of them), a uint24 as 3 bytes.
packAddress(a) == lowerCase(a)
packUint24(n) == n % 16777216
keccakSalt(token0, token1, fee) ==
  [keccak |-> <<packAddress(token0), packAddress(token1), packUint24(fee)>>]
keccakCreate2(salt) ==
  [keccak |-> <<"0xff", FACTORY_ADDRESS, salt, POOL_INIT_CODE_HASH>>]

NoAddress == [low20 |-> [keccak |-> <<>>]]

\* Mutation: tokenB is used as given.
validated_OnlyA(tokenA, tokenB) == <<getAddress(tokenA), [ok |-> TRUE, address |-> tokenB]>>

\* The arguments getPoolAddress validates with getAddress before it sorts
validated(tokenA, tokenB) == <<getAddress(tokenA), getAddress(tokenB)>>

getPoolAddress(tokenA, tokenB, fee) ==
  LET v == validated(tokenA, tokenB)
  IN IF ~v[1].ok \/ ~v[2].ok THEN [state |-> "threw", address |-> NoAddress]
     ELSE LET t == sortTokens(v[1].address, v[2].address)
              salt == keccakSalt(t[1], t[2], fee)
          IN [state |-> "returned", address |-> [low20 |-> keccakCreate2(salt)]]

TokenStrings ==
  UNION {[1..n -> Chars] : n \in {AddrLen - 1, AddrLen}}
PoolFees == {500, 3000, 10000}

\* The call getPoolAddress(tokenA, tokenB, fee)
GetPoolAddressCall ==
  /\ poolRet.state = "none"
  /\ poolRet' = getPoolAddress(poolArgs.tokenA, poolArgs.tokenB, poolArgs.fee)
  /\ UNCHANGED <<prog, env, mappingFile, tokenMap, pc, req, nreq, tier, inflight, trace,
                 loc, exitCode, poolArgs, handlers>>

InitPool ==
  /\ prog = "getPoolAddress"
  /\ env = [rpc |-> FALSE, key |-> UNDEF]
  /\ mappingFile = TokenMapFull
  /\ tokenMap = <<>>
  /\ pc = "boot"
  /\ req = NoRequest
  /\ nreq = 0
  /\ tier = 0
  /\ inflight = {}
  /\ trace = <<>>
  /\ loc = InitLoc
  /\ exitCode = -1
  /\ poolArgs \in [tokenA : TokenStrings, tokenB : TokenStrings, fee : PoolFees]
  /\ poolRet = [state |-> "none", address |-> NoAddress]
  /\ handlers = <<>>

NextPool == GetPoolAddressCall

SpecPool == InitPool /\ [][NextPool]_vars

(***************************************************************************)
(* Reading the trace.                                                      *)
(***************************************************************************)
CallIdx(op) == {i \in DOMAIN trace : trace[i].ev = "call" /\ trace[i].call.op = op}
RetIdx(op) == {i \in DOMAIN trace : trace[i].ev = "ret" /\ trace[i].call.op = op}
RespIdx == {i \in DOMAIN trace : trace[i].ev = "resp"}
EndIdx == {i \in DOMAIN trace : trace[i].ev \in {"resp", "exit"}}

\* The position of fee in the program's list of tiers, 0 if it is not there
TierOf(p, fee) ==
  IF \E k \in DOMAIN feeTiers(p) : feeTiers(p)[k] = fee
  THEN CHOOSE k \in DOMAIN feeTiers(p) : feeTiers(p)[k] = fee
  ELSE 0

\* getBestQuote has thrown its no-liquidity error
NoLiquidityRaised ==
  \E i \in EndIdx : trace[i].body.kind = "error"
                    /\ trace[i].body.error = NoLiquidityMessage(prog)

(***************************************************************************)
(* C1: getBestQuote tries the tiers in list order, returns the fee and     *)
(* amountOut of the first tier whose quoter call succeeds, and issues no   *)
(* quoter call for a tier after that one.                                  *)
(***************************************************************************)
C1_FirstSuccessReturned ==
  /\ \A i \in CallIdx("quote") :
       LET k == Cardinality({j \in CallIdx("quote") : j <= i})
       IN k <= Len(feeTiers(prog)) /\ trace[i].call.fee = feeTiers(prog)[k]
  /\ \A i \in RetIdx("quote") :
       trace[i].ok =>
         /\ \A j \in CallIdx("quote") : j < i
         /\ \A j \in RetIdx("quote") : j < i => ~trace[j].ok
         /\ loc.fee = trace[i].call.fee
         /\ loc.amountOut = trace[i].val
         /\ (req.route = "quote" =>
               /\ i + 1 = Len(trace)
               /\ trace[i + 1] = RespEv(200, QuoteBody(trace[i].call.fee, trace[i].val)))

\* the second tier answered after the first had failed
C1_Witness ==
  \E i \in RetIdx("quote") :
    /\ trace[i].ok /\ trace[i].call.fee = 3000 /\ trace[i].val = 250
    /\ prog = "app1" /\ loc.fee = 3000
    /\ \E j \in RetIdx("quote") : j < i /\ ~trace[j].ok

(***************************************************************************)
(* C2: getBestQuote throws the no-liquidity error exactly when the quoter  *)
(* call of every tier has failed; a failed tier is followed by the call of *)
(* the next tier, so on total failure each tier was called exactly once.   *)
(***************************************************************************)
AllTiersFailed ==
  \A k \in DOMAIN feeTiers(prog) :
    \E i \in RetIdx("quote") : trace[i].call.fee = feeTiers(prog)[k] /\ ~trace[i].ok

C2_NoLiquidityIffAllFail ==
  HasGetBestQuote(prog) =>
    /\ NoLiquidityRaised <=> (AllTiersFailed /\ pc \in {"done", "exited"})
    /\ NoLiquidityRaised =>
         \A k \in DOMAIN feeTiers(prog) :
           Cardinality({i \in CallIdx("quote") : trace[i].call.fee = feeTiers(prog)[k]}) = 1
    /\ \A i \in RetIdx("quote") :
         (~trace[i].ok /\ TierOf(prog, trace[i].call.fee) < Len(feeTiers(prog))) =>
           /\ i + 1 \in DOMAIN trace
           /\ trace[i + 1].ev = "call"
           /\ trace[i + 1].call.op = "quote"
           /\ trace[i + 1].call.fee = feeTiers(prog)[TierOf(prog, trace[i].call.fee) + 1]

\* every one of the four tiers of app3 failed and the request was answered
C2_Witness ==
  /\ prog = "app3" /\ NoLiquidityRaised
  /\ Cardinality(RetIdx("quote")) = 4
  /\ \E i \in CallIdx("quote") : trace[i].call.tokenIn = DAI_ADDRESS

(***************************************************************************)
(* C3: a swap transaction is sent only after the approve transaction of    *)
(* the same run, if there is one, was confirmed; after a failed approve    *)
(* submission or confirmation no swap transaction is sent.                 *)
(***************************************************************************)
C3_ApproveConfirmedBeforeSwap ==
  /\ \A i \in CallIdx("swap") : \A j \in CallIdx("approve") :
       \E k \in RetIdx("approveWait") : j < k /\ k < i /\ trace[k].ok
  /\ (\E j \in RetIdx("approve") \cup RetIdx("approveWait") : ~trace[j].ok) =>
       CallIdx("swap") = {}

\* a swap was sent in a run that had to approve first
C3_Witness == CallIdx("swap") # {} /\ CallIdx("approve") # {}

(***************************************************************************)
(* C5: a /quote or /swap request with a malformed body (a missing field, a *)
(* token that does not resolve or is no address, an amount that does not   *)
(* parse) is answered with a 4xx status.                                   *)
(***************************************************************************)
TokenResolves(p, m, x) ==
  /\ findTokenAddress(p, m, x).ok
  /\ findTokenAddress(p, m, x).addr \in ChainAddresses

Malformed(p, m, r) ==
  \/ ~BodyComplete(r)
  \/ ~TokenResolves(p, m, r.tokenIn)
  \/ ~TokenResolves(p, m, r.tokenOut)
  \/ ~ParseEtherOk(r.amountIn)

C5_MalformedIsClientError ==
  (IsService(prog) /\ pc = "done" /\ Malformed(prog, tokenMap, req)) =>
    \A i \in RespIdx : trace[i].val \in 400..499

(***************************************************************************)
(* C6: every request gets exactly one response: 200 with the result, or an *)
(* error status with a JSON error; exhausted fee tiers give a 5xx, and a   *)
(* 200 of /swap comes only after the swap transaction was confirmed.       *)
(***************************************************************************)
Handling == pc \notin {"boot", "listening", "done", "exited"}

C6_ExactlyOneResponse ==
  IsService(prog) =>
    /\ Cardinality(RespIdx) <= 1
    /\ pc = "done" <=> Cardinality(RespIdx) = 1
    /\ Handling => inflight # {}
    /\ \A i \in RespIdx :
         /\ i = Len(trace)
         /\ \/ /\ trace[i].val = 200
               /\ trace[i].body.kind =
                    (IF req.route = "swap" THEN "transactionHash" ELSE "quote")
            \/ /\ trace[i].val \in 400..599
               /\ trace[i].body.kind = "error"
         /\ trace[i].body.error = NoLiquidityMessage(prog) => trace[i].val \in 500..599
         /\ (trace[i].val = 200 /\ req.route = "swap") =>
              /\ i > 1
              /\ trace[i - 1].ev = "ret"
              /\ trace[i - 1].call.op = "swapWait"
              /\ trace[i - 1].ok

\* a /swap request answered 200
C6_Witness ==
  /\ IsService(prog) /\ pc = "done" /\ req.route = "swap"
  /\ \E i \in RespIdx : trace[i].val = 200 /\ trace[i].body = HashBody

(***************************************************************************)
(* C7: within getBestQuote at most one quoter call is outstanding, each    *)
(* tier is called at most once, and the call for a later tier is issued    *)
(* right after the call for the tier before it has failed.                 *)
(***************************************************************************)
C7_QuotesSequential ==
  /\ Cardinality({c \in inflight : c.op = "quote"}) <= 1
  /\ Cardinality(inflight) <= 1
  /\ \A i, j \in CallIdx("quote") : trace[i].call.fee = trace[j].call.fee => i = j
  /\ \A i \in CallIdx("quote") :
       LET k == TierOf(prog, trace[i].call.fee)
       IN k > 1 =>
            /\ i > 1
            /\ trace[i - 1].ev = "ret"
            /\ trace[i - 1].call.op = "quote"
            /\ trace[i - 1].call.fee = feeTiers(prog)[k - 1]
            /\ ~trace[i - 1].ok

\* the call for the third tier is outstanding
C7_Witness ==
  /\ \E c \in inflight : c.op = "quote" /\ c.fee = 10000
  /\ Cardinality(RetIdx("quote")) = 2

(***************************************************************************)
(* C8: no remote operation is issued twice in a run, and a failed approve  *)
(* or swap (submission or confirmation) is the last remote operation of    *)
(* the run, which ends in an HTTP error or a non-zero exit.                *)
(***************************************************************************)
C8_NoRetry ==
  /\ \A i, j \in DOMAIN trace :
       (trace[i].ev = "call" /\ trace[j].ev = "call"
        /\ trace[i].call.op = trace[j].call.op
        /\ trace[i].call.fee = trace[j].call.fee) => i = j
  /\ \A i \in RetIdx("approve") \cup RetIdx("approveWait")
              \cup RetIdx("swap") \cup RetIdx("swapWait") :
       ~trace[i].ok =>
         /\ i + 1 = Len(trace)
         /\ inflight = {}
         /\ \/ /\ IsService(prog)
               /\ trace[i + 1].ev = "resp"
               /\ trace[i + 1].val \in 400..599
               /\ pc = "done"
            \/ /\ ~IsService(prog)
               /\ trace[i + 1].ev = "exit"
               /\ trace[i + 1].val # 0
               /\ exitCode # 0
               /\ pc = "exited"

\* the swap confirmation failed in the script
C8_Witness ==
  /\ prog = "swapMap"
  /\ \E i \in RetIdx("swapWait") : ~trace[i].ok
  /\ exitCode = 1

(***************************************************************************)
(* C10: with the RPC endpoint or the credential it reads missing, a        *)
(* program stops at startup: it issues no remote call and accepts no       *)
(* request.                                                                *)
(***************************************************************************)
C10_MissingConfigIsFatal ==
  (~env.rpc \/ (~IsService(prog) /\ ~Truthy(env.key))) =>
    /\ \A i \in DOMAIN trace : trace[i].ev # "call"
    /\ nreq = 0

(***************************************************************************)
(* C4: getPoolAddress(A, B, F) = getPoolAddress(B, A, F) for valid A, B.   *)
(***************************************************************************)
C4_OrderIndependent ==
  (poolRet.state = "returned") =>
    poolRet = getPoolAddress(poolArgs.tokenB, poolArgs.tokenA, poolArgs.fee)

\* a call whose arguments are in descending order, so that it swaps them
C4_Witness ==
  /\ poolRet.state = "returned"
  /\ stringLess(lowerCase(poolArgs.tokenB), lowerCase(poolArgs.tokenA))

(***************************************************************************)
(* C9: getPoolAddress throws, and returns no address, exactly when tokenA  *)
(* or tokenB is no well-formed identifier.                                 *)
(***************************************************************************)
\* AddrLen hex digits, in one letter case or in the checksum's mixed case
WellFormed(a) ==
  /\ Len(a) = AddrLen
  /\ \A i \in 1..Len(a) : a[i] \in HexChars
  /\ \/ \A i \in 1..Len(a) : a[i] \notin UpperChars
     \/ \A i \in 1..Len(a) : a[i] \notin LowerChars
     \/ \A i \in 1..Len(a) :
          a[i] \in UpperChars <=> hashNibbleHigh(lowerCase(a), i) /\ a[i] # "0"

C9_InvalidAddressThrows ==
  poolRet.state # "none" =>
    /\ poolRet.state = "threw" <=>
         (~WellFormed(poolArgs.tokenA) \/ ~WellFormed(poolArgs.tokenB))
    /\ poolRet.state = "threw" => poolRet.address = NoAddress
    /\ poolRet.state = "returned" => poolRet.address # NoAddress

\* tokenA is fine and tokenB has a bad checksum
C9_Witness ==
  /\ poolRet.state = "threw"
  /\ WellFormed(poolArgs.tokenA)
  /\ Len(poolArgs.tokenB) = AddrLen
  /\ \A i \in 1..AddrLen : poolArgs.tokenB[i] \in HexChars

\* C11 (as stated): the mapping file is never written or modified by any
\* code of the system: no step of any program changes its content.
C11_MappingNeverWritten == [][mappingFile' = mappingFile]_vars

\* C11 (amended): the services and the swap scripts leave the mapping file
\* as it is and read it only while they are loaded, into tokenMap, which
\* never changes afterwards; the one program that writes the file is the
\* generator getTokenMapping, which replaces it with the mapping of
\* tokens.txt.
C11_MappingWrittenOnlyByGenerator ==
  [][/\ prog # "genMapping" => mappingFile' = mappingFile
     /\ tokenMap' # tokenMap => pc = "boot" /\ tokenMap' = mappingFile
     /\ mappingFile' # mappingFile => pc = "boot" /\ pc' = "exited" /\ exitCode' = 0]_vars
C11_Witness ==
  /\ prog = "genMapping"
  /\ pc = "exited"
  /\ Len(mappingFile) = 2
  /\ mappingFile[1].name = "WETH9"

\* The replies of the quoter the trace holds
QuoteOk == {i \in RetIdx("quote") : trace[i].ok}
QuoteFailed == {i \in RetIdx("quote") : ~trace[i].ok}

\* The configured fees whose quoter call was not seen to fail before
\* position i of the trace
NotSeenFailing(p, i) ==
  {feeTiers(p)[k] : k \in {k \in DOMAIN feeTiers(p) :
     ~\E j \in QuoteFailed : j < i /\ trace[j].call.fee = feeTiers(p)[k]}}

\* C13: whenever getBestQuote returns a quote, its fee is the smallest fee
\* among the configured tiers whose quoter call would succeed: the list of
\* tiers is strictly ascending, every tier of a lower fee was tried and
\* failed, and the fee returned is the one of the call that succeeded.
C13_ReturnedFeeIsSmallest ==
  HasGetBestQuote(prog) =>
    /\ \A k, l \in DOMAIN feeTiers(prog) : k < l => feeTiers(prog)[k] < feeTiers(prog)[l]
    /\ \A i \in QuoteOk :
         /\ loc.fee = trace[i].call.fee
         /\ loc.fee \in NotSeenFailing(prog, i)
         /\ \A g \in NotSeenFailing(prog, i) : loc.fee <= g
         /\ \A k \in DOMAIN feeTiers(prog) :
              feeTiers(prog)[k] < loc.fee =>
                \E j \in QuoteFailed : j < i /\ trace[j].call.fee = feeTiers(prog)[k]
C13_Witness ==
  /\ prog = "app3"
  /\ \E i \in QuoteOk : trace[i].call.fee = 10000
  /\ Cardinality(QuoteFailed) = 2

\* C14: for every call of getPoolAddress that returns, the pair
\* (token0, token1) it hashes is in strict ascending order of lower-case hex
\* form, also when tokenA and tokenB differ only in letter case or are the
\* same address.
C14_HashedPairStrictlyAscending ==
  poolRet.state = "returned" =>
    LET salt == poolRet.address.low20.keccak[3]
    IN stringLess(salt.keccak[1], salt.keccak[2])

\* C15: every swap transaction sent was preceded, in the same request or
\* run, by a successful quote for the same tokenIn, tokenOut and amountIn;
\* the swap carries the fee of that quote and an amountOutMinimum derived
\* from its amountOut by the flow's slippage, and the quote is one for the
\* tokens and amount of the request being handled.
C15_SwapFollowsOwnQuote ==
  \A i \in CallIdx("swap") :
    \E j \in QuoteOk :
      LET swap == trace[i].call
          quote == trace[j].call
          percent == dynamicSlippage(prog, req) \div 10
      IN /\ j < i
         /\ quote.tokenIn = swap.tokenIn
         /\ quote.tokenOut = swap.tokenOut
         /\ quote.amountIn = swap.amountIn
         /\ quote.fee = swap.fee
         /\ swap.minOut * 100 <= trace[j].val * (100 - percent)
         /\ trace[j].val * (100 - percent) < (swap.minOut + 1) * 100
         /\ Cardinality(QuoteOk) = 1
         /\ IsService(prog) =>
              /\ quote.tokenIn = findTokenAddress(prog, tokenMap, req.tokenIn).addr
              /\ quote.tokenOut = findTokenAddress(prog, tokenMap, req.tokenOut).addr
              /\ quote.amountIn = parseEther(req.amountIn)
C15_Witness ==
  /\ IsService(prog)
  /\ nreq = 2
  /\ \E i \in CallIdx("swap") : trace[i].call.fee = 3000 /\ trace[i].call.minOut > 0

\* The state-changing transactions sent so far in the request or run
Sent == CallIdx("approve") \cup CallIdx("swap")
SwapRequest == IsService(prog) /\ req.route = "swap"

\* C17: a /swap request rejected by a precondition check (no Authorization
\* header: 401, a missing body field: 400, a token balance below amountIn:
\* 400) sends no approve and no swap, and the Authorization check comes
\* before the body check; the swap script ends with the balance error
\* before it sends anything.
C17_RejectedSendsNothing ==
  /\ SwapRequest =>
       /\ \A i \in RespIdx : trace[i].val \in {400, 401} => Sent = {}
       /\ ~Truthy(req.auth) => trace = <<RespEv(401, ErrorBody(MsgNoKey))>>
       /\ Truthy(req.auth) /\ ~BodyComplete(req) =>
            trace = <<RespEv(400, ErrorBody(MsgMissing))>>
  /\ \A i \in RetIdx("balanceOf") :
       trace[i].ok /\ trace[i].val < loc.amountInWei =>
         /\ Sent = {}
         /\ Len(trace) = i + 1
         /\ trace[i + 1] = IF IsService(prog) THEN RespEv(400, ErrorBody(MsgBalance))
                           ELSE ExitEv(1, ErrorBody(MsgBalance))
C17_Witness ==
  /\ SwapRequest
  /\ \E i \in RetIdx("balanceOf") : trace[i].ok /\ trace[i].val < loc.amountInWei
  /\ \E i \in RespIdx : trace[i].val = 400

\* C18 (as stated): whenever a /swap request ends with an error response
\* (status 4xx or 5xx), no approve and no swap was sent during the request.
C18_ErrorMeansNothingSent ==
  SwapRequest => \A i \in RespIdx : trace[i].val >= 400 => Sent = {}

\* C18 (amended): whenever a /swap request ends with a 4xx response, no
\* approve and no swap was sent during the request; when it ends with a 5xx
\* response an approve or a swap may have been sent, but no swap was
\* confirmed.
C18_ClientErrorMeansNothingSent ==
  SwapRequest =>
    \A i \in RespIdx :
      /\ trace[i].val \in 400..499 => Sent = {}
      /\ trace[i].val >= 500 => \A j \in RetIdx("swapWait") : ~trace[j].ok
C18_Witness ==
  /\ SwapRequest
  /\ \E i \in RespIdx : trace[i].val = 500
  /\ \E j \in RetIdx("approveWait") : trace[j].ok
  /\ \E j \in RetIdx("swapWait") : ~trace[j].ok

\* C19: in each branch of calculateSlippage the swap flow computes
\* amountOutMinimum = floor(amountOut * (100 - slippagePercent) / 100) with a
\* whole-number multiplier, amountOut * (1 - MAX_SLIPPAGE) - 1 <
\* amountOutMinimum <= amountOut, and the slippage is at most MAX_SLIPPAGE.
C19_MinimumWithinSlippage ==
  (prog \in {"app2", "app3", "swapMap"} /\ req.route \in {"swap", "main"}
   /\ QuoteOk # {}) =>
    LET s == dynamicSlippage(prog, req)
    IN /\ s <= MAX_SLIPPAGE(prog)
       /\ MultiplierOk(s)
       /\ loc.amountOutMinimum = (loc.amountOut * (1000 - s)) \div 1000
       /\ loc.amountOut * (1000 - MAX_SLIPPAGE(prog)) - 1000 < loc.amountOutMinimum * 1000
       /\ loc.amountOutMinimum <= loc.amountOut

\* C20: in the /swap handlers that support ETH, the swap's value is
\* amountIn exactly when tokenIn is "eth" in any letter case and zero
\* otherwise; the balance check, the allowance check and the approve happen
\* only when tokenIn is not "eth", the two checks always then; and an
\* approve is sent exactly when the allowance read is below amountIn.
IsEth(r) == r.tokenIn.t = "string" /\ toLowerCase(r.tokenIn.v) = "eth"
C20_ValueAndChecksFollowTokenIn ==
  (prog \in {"app2", "app3"} /\ req.route = "swap") =>
    /\ \A i \in CallIdx("swap") :
         trace[i].call.value = IF IsEth(req) THEN trace[i].call.amountIn ELSE 0
    /\ IsEth(req) =>
         CallIdx("balanceOf") \cup CallIdx("allowance") \cup CallIdx("approve") = {}
    /\ ~IsEth(req) =>
         \A i \in CallIdx("quote") :
           \E b \in RetIdx("balanceOf"), a \in RetIdx("allowance") :
             b < a /\ a < i /\ trace[b].ok /\ trace[a].ok
             /\ trace[b].val >= loc.amountInWei
    /\ \A i \in CallIdx("approve") :
         /\ i - 1 \in RetIdx("allowance")
         /\ trace[i - 1].ok
         /\ trace[i - 1].val < loc.amountInWei
    /\ \A a \in RetIdx("allowance") :
         trace[a].ok =>
           IF trace[a].val < loc.amountInWei
           THEN a + 1 \in CallIdx("approve")
           ELSE CallIdx("approve") = {} /\ a + 1 \in CallIdx("quote")
C20_Witness ==
  /\ prog = "app3"
  /\ req.route = "swap"
  /\ req.tokenIn = Str("ETH")
  /\ \E i \in CallIdx("swap") : trace[i].call.value = 10000

(***************************************************************************)
(* Several requests in flight.                                             *)
(*                                                                         *)
(* A service suspends a handler at each await and runs whatever is ready:  *)
(* a new request, or the continuation of any suspended handler.  Each      *)
(* handler has its own frame (the const and let of the handler's body);    *)
(* the module-level tokenMap, feeTiers and addresses are shared.           *)
(***************************************************************************)
MaxInFlight == 2   \* handlers of one service in flight together

ConcServices == {"app2"}
ConcRequests ==
  { [route |-> "swap", auth |-> Str(PRIVATE_KEY_OK), amountIn |-> Str("1"),
     tokenIn |-> Str("weth"), tokenOut |-> Str("usdt")],
    [route |-> "swap", auth |-> Str(OTHER_KEY_OK), amountIn |-> Str("2"),
     tokenIn |-> Str("eth"), tokenOut |-> Str("dai")],
    [route |-> "quote", auth |-> UNDEF, amountIn |-> Str("1"),
     tokenIn |-> Str("weth"), tokenOut |-> Str("dai")] }

\* The values the node may report in its reply to call c: a balance or an
\* allowance below or at amountIn, one amount for a quote, none for a
\* transaction or a failed call.
ReplyValues(c, ok) ==
  IF ~ok \/ c.op \notin {"balanceOf", "allowance", "quote"} THEN {0}
  ELSE IF c.op = "quote" THEN {250}
  ELSE {0, 10000}

\* The handler's synchronous code up to its first suspension point
HandlerPrefix(p, m, r) ==
  IF r.route = "swap" THEN SwapPrefix(p, m, r, FreshFrame)
  ELSE QuotePrefix(p, m, r, FreshFrame)

\* The continuation of a handler after the reply (ok, v) to its call c
Resume(p, r, f, c, ok, v) ==
  CASE c.op = "balanceOf" -> OnBalance(p, r, f, c, ok, v)
    [] c.op = "allowance" -> OnAllowance(p, r, f, c, ok, v)
    [] c.op = "approve" -> OnApprove(p, r, f, c, ok)
    [] c.op = "approveWait" -> OnApproveWait(p, r, f, c, ok)
    [] c.op = "quote" -> OnQuote(p, r, f, c, ok, v)
    [] c.op = "estimateGas" -> OnEstimate(p, r, f, c, ok)
    [] c.op = "swap" -> OnSwap(p, r, f, c, ok)
    [] OTHER -> OnSwapWait(p, r, f, c, ok)

\* Mutation: the locals are module-level variables, so a handler resumes
\* with what the latest request stored in them.
OwnFrame_SharedLocals(hs, i) == [hs[i].frame EXCEPT !.loc = hs[Len(hs)].frame.loc]

\* The frame handler i resumes with: the locals are declared inside the
\* handler, so they are those of its own invocation.
OwnFrame(hs, i) == hs[i].frame

Accept(r) ==
  /\ Len(handlers) < MaxInFlight
  /\ handlers' = Append(handlers, [req |-> r, frame |-> HandlerPrefix(prog, tokenMap, r)])
  /\ nreq' = nreq + 1
  /\ UNCHANGED <<prog, env, mappingFile, tokenMap, pc, req, tier, inflight, trace, loc,
                 exitCode, poolArgs, poolRet>>

Deliver(i, c, ok, v) ==
  LET f == OwnFrame(handlers, i)
  IN /\ c \in f.inflight
     /\ f.pc = c.op
     /\ c.op = "quote" => c = QuoteCall(prog, f.loc, f.tier)
     /\ ok => CanSucceed(c)
     /\ v \in ReplyValues(c, ok)
     /\ handlers' = [handlers EXCEPT ![i].frame = Resume(prog, handlers[i].req, f, c, ok, v)]
     /\ UNCHANGED <<prog, env, mappingFile, tokenMap, pc, req, nreq, tier, inflight, trace,
                    loc, exitCode, poolArgs, poolRet>>

InitConc ==
  /\ prog \in ConcServices
  /\ env = [rpc |-> TRUE, key |-> UNDEF]
  /\ mappingFile = TokenMapFull
  /\ tokenMap = mappingFile
  /\ pc = "listening"
  /\ req = NoRequest
  /\ nreq = 0
  /\ tier = 0
  /\ inflight = {}
  /\ trace = <<>>
  /\ loc = InitLoc
  /\ exitCode = -1
  /\ poolArgs = NoPool
  /\ poolRet = NoRet
  /\ handlers = <<>>

NextConc ==
  \/ \E r \in ConcRequests : Accept(r)
  \/ \E i \in DOMAIN handlers :
       \E c \in handlers[i].frame.inflight, ok \in BOOLEAN :
         \E v \in ReplyValues(c, ok) : Deliver(i, c, ok, v)

SpecConc == InitConc /\ [][NextConc]_vars

\* The replies a handler has received, in order
RepliesOf(tr) == SelectSeq(tr, LAMBDA e : e.ev = "ret")

RECURSIVE ReplayFrom(_, _, _, _)
ReplayFrom(p, r, f, replies) ==
  IF replies = <<>> THEN f
  ELSE ReplayFrom(p, r,
                  Resume(p, r, f, Head(replies).call, Head(replies).ok, Head(replies).val),
                  Tail(replies))

\* The frame of a handler that runs alone, given the request and the
\* replies to its calls
Alone(p, m, r, replies) == ReplayFrom(p, r, HandlerPrefix(p, m, r), replies)

\* C16: when several requests are in flight and interleave at their
\* suspension points, no request depends on another: the calls a handler
\* has made and the response it has given are those of the same request
\* handled alone with the same replies to its calls, every call that goes
\* through a wallet goes through the wallet of the request's own
\* Authorization header, and the shared token mapping is never written.
C16_RequestsIndependent ==
  /\ tokenMap = mappingFile
  /\ \A i \in DOMAIN handlers :
       LET h == handlers[i]
       IN /\ h.frame = Alone(prog, tokenMap, h.req, RepliesOf(h.frame.trace))
          /\ \A k \in DOMAIN h.frame.trace :
               (h.frame.trace[k].ev = "call" /\ h.frame.trace[k].call.op # "quote") =>
                 h.frame.trace[k].call.from = h.req.auth.v
          /\ Cardinality({k \in DOMAIN h.frame.trace : h.frame.trace[k].ev = "resp"}) <= 1
C16_Witness ==
  /\ Len(handlers) = 2
  /\ handlers[1].req.auth # handlers[2].req.auth
  /\ handlers[1].frame.pc = "approveWait"
  /\ handlers[2].frame.pc = "swapWait"
====
